---- MODULE Spec2Model ----
(***************************************************************************)
(* A model of smart_home_control.py: the device classes (SmartDevice,      *)
(* SmartLight, SmartThermostat, SmartDoorLock), the SmartHomeHub registry  *)
(* and simulated clock, and the four automation rules.                     *)
(*                                                                         *)
(* Conventions                                                             *)
(*  - A name is a sequence of one-character strings, so that str.lower()   *)
(*    is computed character by character.                                  *)
(*  - A device object is a record whose fields are the attributes the      *)
(*    object has; reading an attribute the object lacks is AttributeError. *)
(*  - Temperatures current_temp are held in half degrees (the code only    *)
(*    ever adds or subtracts 0.5, which is exact in binary floating        *)
(*    point); target_temp is held in whole degrees as the code receives it.*)
(*  - simulated_time is a count of minutes since 00:00 of the day on which *)
(*    the hub was constructed (day 0).                                     *)
(*  - raised is the exception that escaped the last operation; main() does *)
(*    not catch AttributeError or OverflowError, so the process ends there.*)
(*  - last is a history variable: the operation performed last, as given.  *)
(*  - added is a history variable: the names add_device has been given.    *)
(***************************************************************************)
EXTENDS Integers, Sequences, FiniteSets, TLC

VARIABLES devices, simulated_time, raised, last, added

vars == <<devices, simulated_time, raised, last, added>>

(***************************************************************************)
(* Bounds of the exploration.                                              *)
(***************************************************************************)
\* At most this many keys are registered in the hub.
MaxDevices == 1
\* advance_time is explored while it keeps the simulated clock between these
\* two minutes (21:30 of day 0 and 00:30 of day 1).
MinTime == 1290
MaxTime == 1470

(***************************************************************************)
(* Names.                                                                  *)
(***************************************************************************)
LivingRoomLight ==
  <<"L","i","v","i","n","g"," ","R","o","o","m"," ","L","i","g","h","t">>
BedroomLight ==
  <<"B","e","d","r","o","o","m"," ","L","i","g","h","t">>
MainThermostat ==
  <<"M","a","i","n"," ","T","h","e","r","m","o","s","t","a","t">>
FrontDoorLock ==
  <<"F","r","o","n","t"," ","D","o","o","r"," ","L","o","c","k">>
FrontDoorLight ==
  <<"F","r","o","n","t"," ","D","o","o","r"," ","L","i","g","h","t">>
\* Spellings of rule names that differ from the rules' own only in case.
LivingRoomLightUpper ==
  <<"L","I","V","I","N","G"," ","R","O","O","M"," ","L","I","G","H","T">>
FrontDoorLockLower ==
  <<"f","r","o","n","t"," ","d","o","o","r"," ","l","o","c","k">>
\* A name no device is ever constructed with.
GarageDoor == <<"G","a","r","a","g","e">>

UpperCase ==
  <<"A","B","C","D","E","F","G","H","I","J","K","L","M",
    "N","O","P","Q","R","S","T","U","V","W","X","Y","Z">>
LowerCase ==
  <<"a","b","c","d","e","f","g","h","i","j","k","l","m",
    "n","o","p","q","r","s","t","u","v","w","x","y","z">>

\* str.lower() on one character.
LowerChar(c) ==
  IF \E i \in 1..26 : UpperCase[i] = c
    THEN LowerCase[CHOOSE i \in 1..26 : UpperCase[i] = c]
    ELSE c

\* The characters names are written in, and LowerChar tabulated over them.
Alphabet ==
  {UpperCase[i] : i \in 1..26} \cup {LowerCase[i] : i \in 1..26} \cup {" "}
LowerTable == [c \in Alphabet |-> LowerChar(c)]

\* str.lower()
Lower(s) == [i \in 1..Len(s) |-> LowerTable[s[i]]]

(***************************************************************************)
(* Device classes.                                                         *)
(***************************************************************************)
\* The value get_device returns for an absent key.
None == [kind |-> "None"]

\* SmartDevice.__init__
SmartDevice(name) ==
  [kind |-> "SmartDevice", name |-> name, is_on |-> FALSE]

\* SmartLight.__init__
SmartLight(name, brightness) ==
  [kind |-> "SmartLight", name |-> name, is_on |-> FALSE,
   brightness |-> brightness]

\* SmartThermostat.__init__ (current_temp in half degrees)
SmartThermostat(name, current_temp, target_temp) ==
  [kind |-> "SmartThermostat", name |-> name, is_on |-> FALSE,
   current_temp |-> current_temp, target_temp |-> target_temp,
   mode |-> "Off"]

\* SmartDoorLock.__init__
SmartDoorLock(name, is_locked) ==
  [kind |-> "SmartDoorLock", name |-> name, is_on |-> TRUE,
   is_locked |-> is_locked]

\* hasattr(d, a)
HasAttr(d, a) == a \in DOMAIN d

\* n whole degrees in half degrees
Deg(n) == 2 * n

\* Mutant of BaseTurnOn: turn_on switches the device over.
BaseTurnOnToggles(d) == [d EXCEPT !.is_on = ~@]

\* SmartDevice.turn_on
BaseTurnOn(d) == IF ~d.is_on THEN [d EXCEPT !.is_on = TRUE] ELSE d

\* SmartDevice.turn_off
BaseTurnOff(d) == IF d.is_on THEN [d EXCEPT !.is_on = FALSE] ELSE d

\* SmartThermostat._update_mode
UpdateMode(d) ==
  IF d.is_on
    THEN IF d.current_temp < Deg(d.target_temp - 1)
           THEN [d EXCEPT !.mode = "Heating"]
           ELSE IF d.current_temp > Deg(d.target_temp + 1)
                  THEN [d EXCEPT !.mode = "Cooling"]
                  ELSE [d EXCEPT !.mode = "Idle"]
    ELSE [d EXCEPT !.mode = "Off"]

\* SmartThermostat.turn_on
ThermostatTurnOn(d) == UpdateMode(BaseTurnOn(d))

\* Mutant of ThermostatTurnOff: the override forgets to force the mode.
ThermostatTurnOffKeepsMode(d) == BaseTurnOff(d)

\* SmartThermostat.turn_off
ThermostatTurnOff(d) == [BaseTurnOff(d) EXCEPT !.mode = "Off"]

\* SmartDoorLock.turn_on
LockTurnOn(d) == d

\* Mutant of LockTurnOff: the lock inherits SmartDevice.turn_off.
LockTurnOffInherited(d) == BaseTurnOff(d)

\* SmartDoorLock.turn_off
LockTurnOff(d) == d

\* d.turn_on(), dispatched on the class of d
TurnOn(d) ==
  CASE d.kind = "SmartThermostat" -> ThermostatTurnOn(d)
    [] d.kind = "SmartDoorLock" -> LockTurnOn(d)
    [] OTHER -> BaseTurnOn(d)

\* d.turn_off(), dispatched on the class of d
TurnOff(d) ==
  CASE d.kind = "SmartThermostat" -> ThermostatTurnOff(d)
    [] d.kind = "SmartDoorLock" -> LockTurnOff(d)
    [] OTHER -> BaseTurnOff(d)

\* Mutant of ValidBrightness: the upper limit is not checked.
ValidBrightnessNoUpper(level) == 0 <= level

\* The range check of SmartLight.set_brightness
ValidBrightness(level) == 0 <= level /\ level <= 100

\* Mutant of SetBrightness: level 0 no longer turns an on light off.
SetBrightnessNoPowerOff(d, level) ==
  IF ValidBrightness(level)
    THEN LET b == [d EXCEPT !.brightness = level]
         IN  IF level > 0 /\ ~b.is_on THEN TurnOn(b) ELSE b
    ELSE d

\* Mutant of SetBrightness: a level above 0 no longer turns an off light on.
SetBrightnessNoPowerOn(d, level) ==
  IF ValidBrightness(level)
    THEN LET b == [d EXCEPT !.brightness = level]
         IN  IF level = 0 /\ b.is_on THEN TurnOff(b) ELSE b
    ELSE d

\* SmartLight.set_brightness
SetBrightness(d, level) ==
  IF ValidBrightness(level)
    THEN LET b == [d EXCEPT !.brightness = level]
         IN  IF level > 0 /\ ~b.is_on
               THEN TurnOn(b)
               ELSE IF level = 0 /\ b.is_on THEN TurnOff(b) ELSE b
    ELSE d

\* Mutant of ValidTargetTemp: the upper limit is not checked.
ValidTargetTempNoUpper(temp) == 10 <= temp

\* The range check of SmartThermostat.set_target_temp
ValidTargetTemp(temp) == 10 <= temp /\ temp <= 30

\* Mutant of SetTargetTemp: the measured temperature is set to the target.
SetTargetTempSetsCurrent(d, temp) ==
  IF ValidTargetTemp(temp)
    THEN UpdateMode([d EXCEPT !.target_temp = temp,
                              !.current_temp = Deg(temp)])
    ELSE d

\* SmartThermostat.set_target_temp
SetTargetTemp(d, temp) ==
  IF ValidTargetTemp(temp)
    THEN UpdateMode([d EXCEPT !.target_temp = temp])
    ELSE d

\* Mutant of LockDoor: lock() toggles the bolt.
LockDoorToggles(d) == [d EXCEPT !.is_locked = ~@]

\* SmartDoorLock.lock
LockDoor(d) == IF ~d.is_locked THEN [d EXCEPT !.is_locked = TRUE] ELSE d

\* SmartDoorLock.unlock
UnlockDoor(d) == IF d.is_locked THEN [d EXCEPT !.is_locked = FALSE] ELSE d

(***************************************************************************)
(* The hub: registry and simulated clock.                                  *)
(***************************************************************************)
\* self.devices.get(name.lower()) on a registry value
Get(devs, name) ==
  IF Lower(name) \in DOMAIN devs THEN devs[Lower(name)] ELSE None

\* self.devices[key] = d on a registry value
Put(devs, key, d) ==
  [k \in DOMAIN devs \cup {key} |-> IF k = key THEN d ELSE devs[k]]

\* datetime fields of a minute count
Hour(t) == (t \div 60) % 24
Minute(t) == t % 60
Day(t) == t \div 1440

\* Mutant of ValidTime: the hour is not checked.
ValidTimeHourUnchecked(hour, minute) == 0 <= minute /\ minute <= 59

\* The ValueError test of datetime.replace(hour=, minute=)
ValidTime(hour, minute) ==
  0 <= hour /\ hour <= 23 /\ 0 <= minute /\ minute <= 59

\* now.replace(hour=hour, minute=minute, second=0, microsecond=0)
Replace(now_day, hour, minute) == now_day * 1440 + hour * 60 + minute

\* datetime.min (0001-01-01 00:00) as a minute count, for a hub constructed
\* on the day whose date.toordinal() is 739924: datetime + timedelta raises
\* OverflowError when the sum is earlier.
MinDatetime == -(739923 * 1440)

(***************************************************************************)
(* Automation rules.  A rule works at the clock value t on a cycle record  *)
(* r: the registry, the exception raised so far (rules 3 and 4 read        *)
(* attributes only some classes have), and the rules that have printed     *)
(* their action line.  An exception ends the cycle: later rules are not    *)
(* evaluated.                                                              *)
(***************************************************************************)
\* Mutant of Rule1: the hour is written on the 12-hour clock (11 for 11 PM).
Rule1TwelveHourClock(r, t) ==
  LET living_room_light == Get(r.devices, LivingRoomLight)
  IN  IF /\ r.raised = "none"
         /\ living_room_light.kind # "None"
         /\ Hour(t) = 11
         /\ Minute(t) = 0
         /\ living_room_light.is_on
        THEN [r EXCEPT !.devices = Put(@, Lower(LivingRoomLight),
                                       TurnOff(living_room_light)),
                       !.fired = @ \cup {1}]
        ELSE r

\* Mutant of Rule1: at 23:00 the rule turns off "Bedroom Light" as well.
Rule1AndBedroomLight(r, t) ==
  LET living_room_light == Get(r.devices, LivingRoomLight)
      bedroom_light == Get(r.devices, BedroomLight)
  IN  IF /\ r.raised = "none"
         /\ living_room_light.kind # "None"
         /\ Hour(t) = 23
         /\ Minute(t) = 0
         /\ living_room_light.is_on
        THEN [r EXCEPT !.devices =
                         LET off == Put(@, Lower(LivingRoomLight),
                                        TurnOff(living_room_light))
                         IN  IF bedroom_light.kind # "None"
                               THEN Put(off, Lower(BedroomLight),
                                        TurnOff(bedroom_light))
                               ELSE off,
                       !.fired = @ \cup {1}]
        ELSE r

\* Rule 1: turn off "Living Room Light" at 23:00
Rule1(r, t) ==
  LET living_room_light == Get(r.devices, LivingRoomLight)
  IN  IF /\ r.raised = "none"
         /\ living_room_light.kind # "None"
         /\ Hour(t) = 23
         /\ Minute(t) = 0
         /\ living_room_light.is_on
        THEN [r EXCEPT !.devices = Put(@, Lower(LivingRoomLight),
                                       TurnOff(living_room_light)),
                       !.fired = @ \cup {1}]
        ELSE r

\* Mutant of Rule2: at 18:00 the rule switches the light over, on or off.
Rule2Toggles(r, t) ==
  LET front_door_light == Get(r.devices, FrontDoorLight)
  IN  IF /\ r.raised = "none"
         /\ front_door_light.kind # "None"
         /\ Hour(t) = 18
         /\ Minute(t) = 0
        THEN [r EXCEPT !.devices = Put(@, Lower(FrontDoorLight),
                                       IF front_door_light.is_on
                                         THEN TurnOff(front_door_light)
                                         ELSE TurnOn(front_door_light)),
                       !.fired = @ \cup {2}]
        ELSE r

\* Rule 2: turn on "Front Door Light" at 18:00
Rule2(r, t) ==
  LET front_door_light == Get(r.devices, FrontDoorLight)
  IN  IF /\ r.raised = "none"
         /\ front_door_light.kind # "None"
         /\ Hour(t) = 18
         /\ Minute(t) = 0
         /\ ~front_door_light.is_on
        THEN [r EXCEPT !.devices = Put(@, Lower(FrontDoorLight),
                                       TurnOn(front_door_light)),
                       !.fired = @ \cup {2}]
        ELSE r

\* Mutant of Rule3: the rule fires at or past 22:00 instead of at 22:00.
Rule3AtOrPast(r, t) ==
  LET front_door_lock == Get(r.devices, FrontDoorLock)
  IN  IF /\ r.raised = "none"
         /\ front_door_lock.kind # "None"
         /\ Hour(t) >= 22
        THEN IF ~HasAttr(front_door_lock, "is_locked")
               THEN [r EXCEPT !.raised = "AttributeError"]
               ELSE IF ~front_door_lock.is_locked
                      THEN [r EXCEPT !.devices = Put(@, Lower(FrontDoorLock),
                                                     LockDoor(front_door_lock)),
                                     !.fired = @ \cup {3}]
                      ELSE r
        ELSE r

\* Rule 3: lock "Front Door Lock" at 22:00
Rule3(r, t) ==
  LET front_door_lock == Get(r.devices, FrontDoorLock)
  IN  IF /\ r.raised = "none"
         /\ front_door_lock.kind # "None"
         /\ Hour(t) = 22
         /\ Minute(t) = 0
        THEN IF ~HasAttr(front_door_lock, "is_locked")
               THEN [r EXCEPT !.raised = "AttributeError"]
               ELSE IF ~front_door_lock.is_locked
                      THEN [r EXCEPT !.devices = Put(@, Lower(FrontDoorLock),
                                                     LockDoor(front_door_lock)),
                                     !.fired = @ \cup {3}]
                      ELSE r
        ELSE r

\* Mutant of Drift: the step is a whole degree.
DriftWholeDegree(thermostat) ==
  IF thermostat.mode = "Heating"
    THEN IF thermostat.current_temp < Deg(thermostat.target_temp)
           THEN [thermostat EXCEPT !.current_temp = @ + 2]
           ELSE thermostat
    ELSE IF thermostat.mode = "Cooling"
           THEN IF thermostat.current_temp > Deg(thermostat.target_temp)
                  THEN [thermostat EXCEPT !.current_temp = @ - 2]
                  ELSE thermostat
           ELSE thermostat

\* The temperature step of rule 4 (0.5 degree is one half degree)
Drift(thermostat) ==
  IF thermostat.mode = "Heating"
    THEN IF thermostat.current_temp < Deg(thermostat.target_temp)
           THEN [thermostat EXCEPT !.current_temp = @ + 1]
           ELSE thermostat
    ELSE IF thermostat.mode = "Cooling"
           THEN IF thermostat.current_temp > Deg(thermostat.target_temp)
                  THEN [thermostat EXCEPT !.current_temp = @ - 1]
                  ELSE thermostat
           ELSE thermostat

\* Mutant of Rule4: the temperature step is taken twice in a cycle.
Rule4DriftsTwice(r, t) ==
  LET thermostat == Get(r.devices, MainThermostat)
  IN  IF /\ r.raised = "none"
         /\ thermostat.kind # "None"
         /\ thermostat.is_on
        THEN IF ~HasAttr(thermostat, "mode")
               THEN [r EXCEPT !.raised = "AttributeError"]
               ELSE [r EXCEPT !.devices =
                                Put(@, Lower(MainThermostat),
                                    UpdateMode(Drift(UpdateMode(
                                      Drift(thermostat))))),
                              !.fired = IF Drift(thermostat) # thermostat
                                          THEN @ \cup {4} ELSE @]
        ELSE r

\* Rule 4: drift of "Main Thermostat", then _update_mode
Rule4(r, t) ==
  LET thermostat == Get(r.devices, MainThermostat)
  IN  IF /\ r.raised = "none"
         /\ thermostat.kind # "None"
         /\ thermostat.is_on
        THEN IF ~HasAttr(thermostat, "mode")
               THEN [r EXCEPT !.raised = "AttributeError"]
               ELSE [r EXCEPT !.devices = Put(@, Lower(MainThermostat),
                                              UpdateMode(Drift(thermostat))),
                              !.fired = IF Drift(thermostat) # thermostat
                                          THEN @ \cup {4} ELSE @]
        ELSE r

\* SmartHomeHub.run_automation_rules on a registry value
RunRules(devs, t) ==
  Rule4(Rule3(Rule2(Rule1(
    [devices |-> devs, raised |-> "none", fired |-> {}], t), t), t), t)

(***************************************************************************)
(* Inputs the exploration draws from.                                      *)
(***************************************************************************)
\* The five devices main() constructs, and devices of one class constructed
\* under a name an automation rule looks up for another class.
Catalogue ==
  { SmartLight(LivingRoomLight, 50),
    SmartLight(BedroomLight, 75),
    SmartThermostat(MainThermostat, Deg(25), 22),
    SmartDoorLock(FrontDoorLock, TRUE),
    SmartLight(FrontDoorLight, 0),
    SmartDoorLock(LivingRoomLightUpper, TRUE),
    SmartDevice(FrontDoorLockLower),
    SmartThermostat(FrontDoorLight, Deg(22), 20),
    SmartDoorLock(FrontDoorLight, FALSE),
    SmartDevice(MainThermostat) }

\* Names typed at "Enter device name"
InputNames ==
  { LivingRoomLight, BedroomLight, MainThermostat, FrontDoorLock,
    FrontDoorLight }

\* Names typed for a device that may not be registered
LookupNames == {GarageDoor, BedroomLight}

\* The real date datetime.now() reads: the process is explored within the
\* real day on which the hub was constructed.
NowDays == {0}

BrightnessInputs == {-1, 0, 100, 101}
TargetTempInputs == {9, 22, 28, 31}
AdvanceInputs == {-1100000000, -90, 0, 90}
SetTimeInputs ==
  { <<18, 0>>, <<22, 0>>, <<22, 59>>, <<23, 0>>, <<23, 1>>,
    <<25, 0>>, <<23, 60>> }
\* The hub is constructed at one of these times of day 0.
StartTimes == {21 * 60 + 30}

InWindow(t) == MinTime <= t /\ t <= MaxTime

(***************************************************************************)
(* Operations.                                                             *)
(***************************************************************************)
\* The record of an operation: its name and arguments as given, the clock
\* value it started from, what it reported, the automation rules that
\* printed their action line in it, the object given to add_device, and
\* whether the operation repeats the one before it.
Record(op, name, a, b, result, again) ==
  [op |-> op, name |-> name, a |-> a, b |-> b, from |-> simulated_time,
   result |-> result, fired |-> {}, device |-> None, again |-> again]

\* The operation recorded in l evaluated the automation rules.
RanCycle(l) ==
  \/ l.op = "run_automation_rules"
  \/ l.op = "advance_time" /\ l.result # "OverflowError"
  \/ l.op = "set_simulated_time" /\ l.result # "invalid"

\* The record of an operation that follows the operation recorded in last:
\* it repeats it when it is the same call on the same device with the same
\* arguments.
Op(op, name, a, b, result) ==
  Record(op, name, a, b, result,
         /\ last.op = op
         /\ Lower(last.name) = Lower(name)
         /\ last.a = a
         /\ last.b = b)

\* SmartHomeHub.__init__
Init ==
  /\ devices = <<>>
  /\ simulated_time \in StartTimes
  /\ raised = "none"
  /\ last = Record("init", <<>>, 0, 0, "ok", FALSE)
  /\ added = {}

\* Mutant of AddDevice: the key is the name as given, not lower-cased.
AddDeviceKeyedAsGiven(device) ==
  /\ raised = "none"
  /\ Cardinality(DOMAIN devices \cup {device.name}) <= MaxDevices
  /\ devices' = Put(devices, device.name, device)
  /\ last' = [Op("add_device", device.name, 0, 0, "ok")
                EXCEPT !.device = device]
  /\ added' = added \cup {device.name}
  /\ UNCHANGED <<simulated_time, raised>>

\* SmartHomeHub.add_device
AddDevice(device) ==
  /\ raised = "none"
  /\ Cardinality(DOMAIN devices \cup {Lower(device.name)}) <= MaxDevices
  /\ devices' = Put(devices, Lower(device.name), device)
  /\ last' = [Op("add_device", device.name, 0, 0, "ok")
                EXCEPT !.device = device]
  /\ added' = added \cup {device.name}
  /\ UNCHANGED <<simulated_time, raised>>

\* control_device_menu on a name get_device does not find: it returns
\* before any action is read.
ControlUnknownDevice(name) ==
  /\ raised = "none"
  /\ Get(devices, name).kind = "None"
  /\ last' = Op("control_device", name, 0, 0, "notfound")
  /\ UNCHANGED <<devices, simulated_time, raised, added>>

\* A method call on the device control_device_menu looks up by name: the
\* device becomes after, and the call reports result.  The menu offers a
\* method only to the classes that have it.
Command(op, name, a, classes, after, result) ==
  /\ raised = "none"
  /\ Get(devices, name).kind \in classes
  /\ devices' = Put(devices, Lower(name), after)
  /\ last' = Op(op, name, a, 0, result)
  /\ UNCHANGED <<simulated_time, raised, added>>

AllClasses ==
  {"SmartDevice", "SmartLight", "SmartThermostat", "SmartDoorLock"}

\* What turn_on prints on d: "turned ON", "is already ON", or the lock's
\* "Lock power is always on"
TurnOnResult(d) ==
  IF d.kind = "SmartDoorLock" THEN "inert"
  ELSE IF ~d.is_on THEN "ok" ELSE "noop"

\* What turn_off prints on d: "turned OFF", "is already OFF", or the lock's
\* "Lock power cannot be turned off"
TurnOffResult(d) ==
  IF d.kind = "SmartDoorLock" THEN "inert"
  ELSE IF d.is_on THEN "ok" ELSE "noop"

\* device.turn_on()
DoTurnOn(name) ==
  Command("turn_on", name, 0, AllClasses, TurnOn(Get(devices, name)),
          TurnOnResult(Get(devices, name)))

\* device.turn_off()
DoTurnOff(name) ==
  Command("turn_off", name, 0, AllClasses, TurnOff(Get(devices, name)),
          TurnOffResult(Get(devices, name)))

\* device.set_brightness(level)
DoSetBrightness(name, level) ==
  Command("set_brightness", name, level, {"SmartLight"},
          SetBrightness(Get(devices, name), level),
          IF ValidBrightness(level) THEN "ok" ELSE "invalid")

\* device.set_target_temp(temp)
DoSetTargetTemp(name, temp) ==
  Command("set_target_temp", name, temp, {"SmartThermostat"},
          SetTargetTemp(Get(devices, name), temp),
          IF ValidTargetTemp(temp) THEN "ok" ELSE "invalid")

\* device.lock(): "Door LOCKED" or "Door is already LOCKED"
DoLock(name) ==
  Command("lock", name, 0, {"SmartDoorLock"},
          LockDoor(Get(devices, name)),
          IF ~Get(devices, name).is_locked THEN "ok" ELSE "noop")

\* device.unlock(): "Door UNLOCKED" or "Door is already UNLOCKED"
DoUnlock(name) ==
  Command("unlock", name, 0, {"SmartDoorLock"},
          UnlockDoor(Get(devices, name)),
          IF Get(devices, name).is_locked THEN "ok" ELSE "noop")

\* The automation cycle at clock value t, as part of the operation op; it
\* repeats the operation before it when that one ran a cycle at t too.
Cycle(t, op) ==
  LET r == RunRules(devices, t)
  IN  /\ devices' = r.devices
      /\ raised' = r.raised
      /\ last' = [op EXCEPT !.result =
                                IF r.raised = "none" THEN "ok" ELSE r.raised,
                              !.fired = r.fired,
                              !.again = RanCycle(last) /\ simulated_time = t]
      /\ UNCHANGED added

\* SmartHomeHub.advance_time
AdvanceTime(minutes) ==
  /\ raised = "none"
  /\ IF simulated_time + minutes < MinDatetime
       THEN /\ raised' = "OverflowError"
            /\ last' = Op("advance_time", <<>>, minutes, 0, "OverflowError")
            /\ UNCHANGED <<devices, simulated_time, added>>
       ELSE /\ InWindow(simulated_time + minutes)
            /\ simulated_time' = simulated_time + minutes
            /\ Cycle(simulated_time + minutes,
                     Op("advance_time", <<>>, minutes, 0, "ok"))

\* Mutant of SetSimulatedTime: the hour and minute are replaced in the
\* simulated timestamp instead of in datetime.now().
SetSimulatedTimeKeepsDate(hour, minute, now_day) ==
  /\ raised = "none"
  /\ IF ValidTime(hour, minute)
       THEN /\ simulated_time' = Replace(Day(simulated_time), hour, minute)
            /\ Cycle(Replace(Day(simulated_time), hour, minute),
                     Op("set_simulated_time", <<>>, hour, minute, "ok"))
       ELSE /\ last' = Op("set_simulated_time", <<>>, hour, minute,
                          "invalid")
            /\ UNCHANGED <<devices, simulated_time, raised, added>>

\* SmartHomeHub.set_simulated_time; now_day is the date datetime.now() reads
SetSimulatedTime(hour, minute, now_day) ==
  /\ raised = "none"
  /\ IF ValidTime(hour, minute)
       THEN /\ simulated_time' = Replace(now_day, hour, minute)
            /\ Cycle(Replace(now_day, hour, minute),
                     Op("set_simulated_time", <<>>, hour, minute, "ok"))
       ELSE /\ last' = Op("set_simulated_time", <<>>, hour, minute,
                          "invalid")
            /\ UNCHANGED <<devices, simulated_time, raised, added>>

\* SmartHomeHub.run_automation_rules, menu choice 5
RunAutomationNow ==
  /\ raised = "none"
  /\ UNCHANGED simulated_time
  /\ Cycle(simulated_time, Op("run_automation_rules", <<>>, 0, 0, "ok"))

Next ==
  \/ \E device \in Catalogue : AddDevice(device)
  \/ \E name \in LookupNames : ControlUnknownDevice(name)
  \/ \E name \in InputNames : DoTurnOn(name)
  \/ \E name \in InputNames : DoTurnOff(name)
  \/ \E name \in InputNames, level \in BrightnessInputs :
       DoSetBrightness(name, level)
  \/ \E name \in InputNames, temp \in TargetTempInputs :
       DoSetTargetTemp(name, temp)
  \/ \E name \in InputNames : DoLock(name)
  \/ \E name \in InputNames : DoUnlock(name)
  \/ \E minutes \in AdvanceInputs : AdvanceTime(minutes)
  \/ \E hm \in SetTimeInputs, now_day \in NowDays :
       SetSimulatedTime(hm[1], hm[2], now_day)
  \/ RunAutomationNow

Spec == Init /\ [][Next]_vars

(***************************************************************************)
(* Repeated automation cycles on a thermostat that is on: the hub holds    *)
(* "Main Thermostat", constructed with some temperatures and turned on,    *)
(* and from then on only operations that run the automation cycle are      *)
(* issued.  Cycles keep being run: run_automation_rules is taken again     *)
(* whenever it stays able to change something.                             *)
(***************************************************************************)
\* Temperatures the thermostat is constructed with: current (in half
\* degrees) and target.
DriftCurrentTemps == {Deg(19), Deg(21), Deg(22) + 1, Deg(25), Deg(27)}
DriftTargetTemps == {20, 22, 24}

InitCycles ==
  /\ \E current_temp \in DriftCurrentTemps, target_temp \in DriftTargetTemps :
       devices = Put(<<>>, Lower(MainThermostat),
                     TurnOn(SmartThermostat(MainThermostat, current_temp,
                                            target_temp)))
  /\ simulated_time \in StartTimes
  /\ raised = "none"
  /\ last = Record("turn_on", MainThermostat, 0, 0, "ok", FALSE)
  /\ added = {MainThermostat}

\* The ways a cycle is run on this hub: an advance, a time setting (one
\* accepted, one rejected and so without a cycle) and the manual trigger.
CycleAdvanceInputs == {0, 90}
CycleSetTimeInputs == { <<18, 0>>, <<25, 0>> }

NextCycles ==
  \/ \E minutes \in CycleAdvanceInputs : AdvanceTime(minutes)
  \/ \E hm \in CycleSetTimeInputs, now_day \in NowDays :
       SetSimulatedTime(hm[1], hm[2], now_day)
  \/ RunAutomationNow

SpecCycles ==
  InitCycles /\ [][NextCycles]_vars /\ WF_vars(RunAutomationNow)

(***************************************************************************)
(* The hub as main() sets it up: the five devices main() constructs are    *)
(* registered, in main()'s order, before the menu loop starts; from then   *)
(* on devices are switched, the lock is locked and unlocked, and the clock *)
(* is moved.                                                               *)
(***************************************************************************)
\* hub.add_device(device) on a registry value
Register(devs, device) == Put(devs, Lower(device.name), device)

InitHome ==
  /\ devices =
       Register(Register(Register(Register(Register(<<>>,
         SmartLight(LivingRoomLight, 50)),
         SmartLight(BedroomLight, 75)),
         SmartThermostat(MainThermostat, Deg(25), 22)),
         SmartDoorLock(FrontDoorLock, TRUE)),
         SmartLight(FrontDoorLight, 0))
  /\ simulated_time \in StartTimes
  /\ raised = "none"
  /\ last = [Record("add_device", FrontDoorLight, 0, 0, "ok", FALSE)
               EXCEPT !.device = SmartLight(FrontDoorLight, 0)]
  /\ added = InputNames

\* Times typed at "Enter new simulated time" and minutes typed at "Enter
\* minutes to advance time by" on this hub
HomeSetTimeInputs == { <<18, 0>>, <<22, 0>>, <<23, 0>>, <<25, 0>> }
HomeAdvanceInputs == {0, 90}

NextHome ==
  \/ \E name \in InputNames : DoTurnOn(name)
  \/ \E name \in InputNames : DoTurnOff(name)
  \/ \E name \in InputNames : DoLock(name)
  \/ \E name \in InputNames : DoUnlock(name)
  \/ \E minutes \in HomeAdvanceInputs : AdvanceTime(minutes)
  \/ \E hm \in HomeSetTimeInputs, now_day \in NowDays :
       SetSimulatedTime(hm[1], hm[2], now_day)
  \/ RunAutomationNow

SpecHome == InitHome /\ [][NextHome]_vars

(***************************************************************************)
(* Properties.                                                             *)
(***************************************************************************)
\* The keys under which a device of class kind is registered
KeysOf(kind) == {k \in DOMAIN devices : devices[k].kind = kind}

\* The coupling of brightness and power on a light
Coupled(d) ==
  /\ d.brightness = 0 => ~d.is_on
  /\ d.brightness > 0 => d.is_on

\* The last operation ran an automation cycle.
CycleRan == RanCycle(last)

\* C1 (as stated): in every reachable state every light has brightness = 0
\* implying off and brightness > 0 implying on.
C1_CouplingInEveryState ==
  \A k \in KeysOf("SmartLight") : Coupled(devices[k])

\* C1 (amended): in every state reached by a successful set_brightness, the
\* light it was called on has brightness = 0 implying off and brightness > 0
\* implying on.
C1_CouplingAfterSetBrightness ==
  last.op = "set_brightness" /\ last.result = "ok"
    => Coupled(Get(devices, last.name))

\* A light that was set to brightness 0 by set_brightness and is off.
C1_Witness ==
  /\ last.op = "set_brightness"
  /\ last.result = "ok"
  /\ Get(devices, last.name).brightness = 0
  /\ ~Get(devices, last.name).is_on

\* C2: after set_brightness(level) with 0 <= level <= 100 the call has
\* succeeded, the light's brightness is level and the light is on exactly
\* when level > 0.
C2_SetBrightnessSetsLevelAndPower ==
  last.op = "set_brightness" /\ 0 <= last.a /\ last.a <= 100
    => /\ last.result = "ok"
       /\ Get(devices, last.name).brightness = last.a
       /\ Get(devices, last.name).is_on = (last.a > 0)

\* set_brightness(100) has just left a light on at brightness 100.
C2_Witness ==
  /\ last.op = "set_brightness"
  /\ last.a = 100
  /\ Get(devices, last.name).brightness = 100
  /\ Get(devices, last.name).is_on

\* C3: set_brightness(level) with level outside 0..100 and
\* set_target_temp(temp) with temp outside 10..30 report the argument as
\* invalid and change no device (nor the clock).
C3_InvalidArgumentChangesNothing ==
  [][ /\ last'.op = "set_brightness" /\ (last'.a < 0 \/ last'.a > 100)
        => last'.result = "invalid" /\ UNCHANGED <<devices, simulated_time>>
      /\ last'.op = "set_target_temp" /\ (last'.a < 10 \/ last'.a > 30)
        => last'.result = "invalid" /\ UNCHANGED <<devices, simulated_time>>
    ]_vars

\* set_target_temp(31) has just been rejected on a thermostat that is on.
C3_Witness ==
  /\ last.op = "set_target_temp"
  /\ last.a = 31
  /\ last.result = "invalid"
  /\ Get(devices, last.name).is_on
  /\ Get(devices, last.name).target_temp # 31

\* C4: in every reachable state the mode of every thermostat is Off when it
\* is off, and otherwise Heating when current_temp < target_temp - 1,
\* Cooling when current_temp > target_temp + 1 and Idle in between.
C4_ModeIsDeadBandFunction ==
  \A k \in KeysOf("SmartThermostat") :
    LET d == devices[k]
    IN  d.mode =
          IF ~d.is_on THEN "Off"
          ELSE IF d.current_temp < 2 * d.target_temp - 2 THEN "Heating"
          ELSE IF d.current_temp > 2 * d.target_temp + 2 THEN "Cooling"
          ELSE "Idle"

\* turn_off has just been called on a thermostat whose temperatures are
\* outside the dead-band.
C4_Witness ==
  /\ last.op = "turn_off"
  /\ Get(devices, last.name).kind = "SmartThermostat"
  /\ ~Get(devices, last.name).is_on
  /\ Get(devices, last.name).current_temp
       > 2 * Get(devices, last.name).target_temp + 2

\* The clock reads hour:minute.
ClockReads(hour, minute) ==
  Hour(simulated_time) = hour /\ Minute(simulated_time) = minute

\* C5: after an automation cycle evaluated with the clock at the trigger
\* minute, the rule's device is in the rule's state: at 23:00 "Living Room
\* Light" is off, at 18:00 "Front Door Light" is on, at 22:00 "Front Door
\* Lock" is locked (for a device of a class that has the power or lock state
\* the rule sets).
C5_TriggerMinuteAppliesRule ==
  CycleRan =>
    /\ ClockReads(23, 0)
         /\ Get(devices, LivingRoomLight).kind
              \in {"SmartLight", "SmartThermostat", "SmartDevice"}
         => ~Get(devices, LivingRoomLight).is_on
    /\ ClockReads(18, 0)
         /\ Get(devices, FrontDoorLight).kind
              \in {"SmartLight", "SmartThermostat", "SmartDevice"}
         => Get(devices, FrontDoorLight).is_on
    /\ ClockReads(22, 0)
         /\ Get(devices, FrontDoorLock).kind = "SmartDoorLock"
         => Get(devices, FrontDoorLock).is_locked

\* set_simulated_time(23, 0) has just turned "Living Room Light" off by
\* rule 1.
C5_Witness ==
  /\ last.op = "set_simulated_time"
  /\ last.a = 23
  /\ last.b = 0
  /\ 1 \in last.fired
  /\ Get(devices, LivingRoomLight).kind = "SmartLight"
  /\ ~Get(devices, LivingRoomLight).is_on

\* C6: a rule fires only in a cycle evaluated at its trigger minute, and a
\* cycle evaluated at any other minute leaves the rule's device as it was.
C6_OnlyAtTriggerMinute ==
  [][ CycleRan' =>
        /\ 1 \in last'.fired => ClockReads(23, 0)'
        /\ 2 \in last'.fired => ClockReads(18, 0)'
        /\ 3 \in last'.fired => ClockReads(22, 0)'
        /\ ~ClockReads(23, 0)'
             => Get(devices', LivingRoomLight) = Get(devices, LivingRoomLight)
        /\ ~ClockReads(18, 0)'
             => Get(devices', FrontDoorLight) = Get(devices, FrontDoorLight)
        /\ ~ClockReads(22, 0)'
             => Get(devices', FrontDoorLock) = Get(devices, FrontDoorLock)
    ]_vars

\* advance_time(90) has just carried the clock across 22:00 and "Front Door
\* Lock" is still unlocked.
C6_Witness ==
  /\ last.op = "advance_time"
  /\ last.a = 90
  /\ last.from < 22 * 60
  /\ simulated_time > 22 * 60
  /\ Get(devices, FrontDoorLock).kind = "SmartDoorLock"
  /\ ~Get(devices, FrontDoorLock).is_locked

\* C7: set_simulated_time with hour outside 0..23 or minute outside 0..59
\* fails, runs no automation cycle and changes neither the clock nor any
\* device.
C7_InvalidTimeChangesNothing ==
  [][ /\ last'.op = "set_simulated_time"
      /\ \/ last'.a < 0 \/ last'.a > 23
         \/ last'.b < 0 \/ last'.b > 59
      => /\ last'.result = "invalid"
         /\ last'.fired = {}
         /\ UNCHANGED <<devices, simulated_time, raised>>
    ]_vars

\* set_simulated_time(25, 0) has just failed while "Main Thermostat" is on
\* and cooling, so that a cycle would have moved its temperature.
C7_Witness ==
  /\ last.op = "set_simulated_time"
  /\ last.a = 25
  /\ last.result = "invalid"
  /\ Get(devices, MainThermostat).kind = "SmartThermostat"
  /\ Get(devices, MainThermostat).mode = "Cooling"

\* C8 (as stated): a successful set_simulated_time(hour, minute) replaces
\* the hour and minute of the simulated clock and keeps its date.
C8_KeepsSimulatedDate ==
  last.op = "set_simulated_time" /\ last.result # "invalid"
    => /\ Day(simulated_time) = Day(last.from)
       /\ ClockReads(last.a, last.b)

\* C8 (amended): a successful set_simulated_time(hour, minute) sets the
\* simulated clock to hour:minute of the real date datetime.now() reads,
\* whatever the simulated date was.
C8_TakesRealDate ==
  last.op = "set_simulated_time" /\ last.result # "invalid"
    => /\ Day(simulated_time) \in NowDays
       /\ ClockReads(last.a, last.b)

\* set_simulated_time has just succeeded from a simulated date after the
\* real one.
C8_Witness ==
  /\ last.op = "set_simulated_time"
  /\ last.result = "ok"
  /\ Day(last.from) = 1
  /\ Day(simulated_time) = 0

\* C9 (as stated): no automation cycle raises an error, whatever devices
\* are registered.
C9_AutomationNeverRaises == CycleRan => raised = "none"

\* One automation cycle on "Main Thermostat", from d to e: the temperature
\* moves by 0.5 toward the target while heating or cooling and the mode does
\* not jump across the dead-band; an idle thermostat stays as it is.
DriftStep(d, e) ==
  /\ e.target_temp = d.target_temp
  /\ d.mode = "Heating"
       => /\ e.current_temp = d.current_temp + 1
          /\ e.current_temp <= 2 * d.target_temp
          /\ e.mode \in {"Heating", "Idle"}
  /\ d.mode = "Cooling"
       => /\ e.current_temp = d.current_temp - 1
          /\ e.current_temp >= 2 * d.target_temp
          /\ e.mode \in {"Cooling", "Idle"}
  /\ d.mode = "Idle" => e = d
  /\ d.current_temp = 50 /\ d.target_temp = 22
       => d.mode = "Cooling" /\ e.current_temp = 49 /\ e.mode = "Cooling"

\* C10: under repeated automation cycles and no other command, a thermostat
\* that is on ("Main Thermostat") moves by 0.5 per cycle toward its target
\* while heating or cooling, never changes between heating and cooling in
\* one cycle, eventually is idle and from then on stays idle at the same
\* temperature; from current 25 and target 22 it is cooling and one cycle
\* gives 24.5, still cooling.
C10_DriftConverges ==
  /\ [][CycleRan' => DriftStep(Get(devices, MainThermostat),
                               Get(devices', MainThermostat))]_vars
  /\ <>[](Get(devices, MainThermostat).mode = "Idle")

\* A cycle has just moved the temperature into the dead-band.
C10_Witness ==
  /\ 4 \in last.fired
  /\ Get(devices, MainThermostat).mode = "Idle"

\* C11: lock() leaves the lock locked and unlock() leaves it unlocked, with
\* every other attribute as it was; a lock() that repeats a lock() on the
\* same lock, and an unlock() that repeats an unlock(), changes nothing and
\* reports that the lock was already in that state.
C11_LockUnlockIdempotent ==
  [][ /\ last'.op = "lock"
        => /\ devices' = Put(devices, Lower(last'.name),
                             [Get(devices, last'.name)
                                EXCEPT !.is_locked = TRUE])
           /\ last'.again => devices' = devices /\ last'.result = "noop"
      /\ last'.op = "unlock"
        => /\ devices' = Put(devices, Lower(last'.name),
                             [Get(devices, last'.name)
                                EXCEPT !.is_locked = FALSE])
           /\ last'.again => devices' = devices /\ last'.result = "noop"
    ]_vars

\* unlock() has just been called a second time in a row on a lock, which is
\* unlocked.
C11_Witness ==
  /\ last.op = "unlock"
  /\ last.again
  /\ last.result = "noop"
  /\ ~Get(devices, last.name).is_locked

\* C12: every lock has its power flag on in every reachable state; turn_on
\* and turn_off on a lock change nothing, and an automation cycle leaves a
\* lock registered under the name of rule 1 or rule 2 as it was, also when
\* the rule acts on it.
C12_LockPowerInert ==
  /\ [](\A k \in KeysOf("SmartDoorLock") : devices[k].is_on)
  /\ [][ /\ /\ last'.op \in {"turn_on", "turn_off"}
            /\ Get(devices, last'.name).kind = "SmartDoorLock"
            => devices' = devices /\ last'.result = "inert"
         /\ CycleRan'
            => \A name \in {LivingRoomLight, FrontDoorLight} :
                 Get(devices, name).kind = "SmartDoorLock"
                   => Get(devices', name) = Get(devices, name)
       ]_vars

\* Rule 1 has just called turn_off on a lock registered as "Living Room
\* Light", which is still on.
C12_Witness ==
  /\ 1 \in last.fired
  /\ Get(devices, LivingRoomLight).kind = "SmartDoorLock"
  /\ Get(devices, LivingRoomLight).is_on

\* The names devices are constructed with or looked up by
Spellings ==
  InputNames \cup {LivingRoomLightUpper, FrontDoorLockLower, GarageDoor}

\* Two characters are the same letter in either case, or the same character.
SameLetter(c, d) ==
  c = d \/ \E i \in 1..26 : {c, d} = {UpperCase[i], LowerCase[i]}

\* Two names are equal ignoring case.
EqualIgnoringCase(m, n) ==
  Len(m) = Len(n) /\ \A i \in 1..Len(m) : SameLetter(m[i], n[i])

\* For each spelling, the spellings equal to it ignoring case
IgnoringCase ==
  [m \in Spellings |-> {n \in Spellings : EqualIgnoringCase(m, n)}]

\* C13: right after add_device(d), get_device(n) returns d for every name n
\* equal to d's name ignoring case, whatever was registered under that name
\* before; get_device of a name that equals no added name ignoring case
\* returns None; and get_device of a name that has been added never returns
\* None.
C13_RegistryCaseInsensitiveLastWins ==
  /\ last.op = "add_device"
       => \A n \in IgnoringCase[last.name] : Get(devices, n) = last.device
  /\ \A n \in Spellings :
       IgnoringCase[n] \cap added = {} => Get(devices, n) = None
  /\ \A m \in added :
       \A n \in IgnoringCase[m] : Get(devices, n) # None

\* A lock has just been added as "LIVING ROOM LIGHT" after a device had been
\* added as "Living Room Light", and "Living Room Light" finds the lock.
C13_Witness ==
  /\ last.op = "add_device"
  /\ last.name = LivingRoomLightUpper
  /\ LivingRoomLight \in added
  /\ Get(devices, LivingRoomLight).kind = "SmartDoorLock"

\* C14 (as stated): every advance_time(minutes) moves the clock by minutes
\* and runs one automation cycle at the new time, and every successful
\* set_simulated_time runs one automation cycle at the new time.
C14_AdvanceMovesClockAndRunsOneCycle ==
  [][ /\ last'.op = "advance_time"
        => /\ simulated_time' = simulated_time + last'.a
           /\ devices' = RunRules(devices, simulated_time').devices
      /\ last'.op = "set_simulated_time" /\ last'.result # "invalid"
        => devices' = RunRules(devices, simulated_time').devices
    ]_vars

\* C15: an automation cycle that repeats a cycle run at the same timestamp,
\* with no command in between, leaves every device as the first cycle left
\* it, except for current_temp and mode of "Main Thermostat".
C15_RulesOneToThreeIdempotent ==
  [][ CycleRan' /\ last'.again
        => /\ DOMAIN devices' = DOMAIN devices
           /\ \A k \in DOMAIN devices :
                IF k = Lower(MainThermostat)
                  THEN [devices'[k]
                          EXCEPT !.current_temp = devices[k].current_temp,
                                 !.mode = devices[k].mode] = devices[k]
                  ELSE devices'[k] = devices[k]
    ]_vars

\* A second cycle in a row has just run at 23:00: "Living Room Light" is
\* off, "Front Door Lock" is as it was, and the thermostat has drifted
\* again.
C15_Witness ==
  /\ CycleRan
  /\ last.again
  /\ ClockReads(23, 0)
  /\ 4 \in last.fired
  /\ ~Get(devices, LivingRoomLight).is_on
  /\ ~Get(devices, FrontDoorLock).is_locked

\* The absolute value of an integer
Abs(x) == IF x < 0 THEN -x ELSE x

\* C16: one advance_time(n) changes current_temp of "Main Thermostat" by at
\* most 0.5 whatever n is; run_automation_rules is one evaluation of the
\* rules at the unchanged clock, and when the thermostat is heating or
\* cooling and has the same mode after one evaluation, a second evaluation
\* at the same timestamp brings the change of current_temp to 1.0 in total.
C16_DriftPerCycleNotPerMinute ==
  [][ LET d == Get(devices, MainThermostat)
          e == Get(devices', MainThermostat)
          twice == Get(RunRules(devices', simulated_time').devices,
                       MainThermostat)
      IN  /\ last'.op = "advance_time"
            => Abs(e.current_temp - d.current_temp) <= 1
          /\ last'.op = "run_automation_rules"
            => /\ simulated_time' = simulated_time
               /\ devices' = RunRules(devices, simulated_time).devices
               /\ d.mode \in {"Heating", "Cooling"} /\ e.mode = d.mode
                    => twice.current_temp - d.current_temp
                         = IF d.mode = "Heating" THEN 2 ELSE -2
               /\ /\ last'.again
                  /\ last.op = "run_automation_rules"
                  /\ 4 \in last.fired
                  /\ d.mode \in {"Heating", "Cooling"}
                  => /\ 4 \in last'.fired
                     /\ e.current_temp - d.current_temp
                          = IF d.mode = "Heating" THEN 1 ELSE -1
    ]_vars

\* run_automation_rules has just moved the temperature a second time in a
\* row at the same timestamp, and the thermostat is still heating.
C16_Witness ==
  /\ last.op = "run_automation_rules"
  /\ last.again
  /\ 4 \in last.fired
  /\ Get(devices, MainThermostat).mode = "Heating"

\* The registry keys the four rules look up
RuleKeys ==
  { Lower(LivingRoomLight), Lower(FrontDoorLight), Lower(FrontDoorLock),
    Lower(MainThermostat) }

\* Registries devs and devs2 hold the same keys and differ at most at the
\* key of name.
DiffersOnlyAt(devs, devs2, name) ==
  /\ DOMAIN devs2 = DOMAIN devs
  /\ \A k \in DOMAIN devs : k # Lower(name) => devs2[k] = devs[k]

\* C17: an automation cycle keeps the set of registry keys and every device
\* registered under another key than the four the rules look up, and does
\* not move the clock itself (after advance_time and set_simulated_time the
\* clock is where the operation put it); each rule, applied in turn,
\* changes at most the device registered under its own name.
C17_CycleFrame ==
  [][ CycleRan' =>
        \A r0 \in {[devices |-> devices, raised |-> "none", fired |-> {}]} :
        \A r1 \in {Rule1(r0, simulated_time')} :
        \A r2 \in {Rule2(r1, simulated_time')} :
        \A r3 \in {Rule3(r2, simulated_time')} :
        \A r4 \in {Rule4(r3, simulated_time')} :
          /\ DOMAIN devices' = DOMAIN devices
          /\ \A k \in DOMAIN devices \ RuleKeys : devices'[k] = devices[k]
          /\ last'.op = "advance_time"
               => simulated_time' = simulated_time + last'.a
          /\ last'.op = "set_simulated_time"
               => \E now_day \in NowDays :
                    simulated_time' = Replace(now_day, last'.a, last'.b)
          /\ last'.op = "run_automation_rules"
               => simulated_time' = simulated_time
          /\ DiffersOnlyAt(r0.devices, r1.devices, LivingRoomLight)
          /\ DiffersOnlyAt(r1.devices, r2.devices, FrontDoorLight)
          /\ DiffersOnlyAt(r2.devices, r3.devices, FrontDoorLock)
          /\ DiffersOnlyAt(r3.devices, r4.devices, MainThermostat)
          /\ devices' = r4.devices
    ]_vars

\* A cycle has just fired rule 1 and rule 4 while "Bedroom Light" is on.
C17_Witness ==
  /\ CycleRan
  /\ {1, 4} \subseteq last.fired
  /\ Get(devices, BedroomLight).kind = "SmartLight"
  /\ Get(devices, BedroomLight).is_on

\* C18: turn_on on a light or thermostat that is on, and turn_off on one
\* that is off, changes no attribute of any device (the mode of the
\* thermostat included) and prints the "already" line; so does a turn_on
\* that repeats a turn_on and a turn_off that repeats a turn_off.
C18_TurnOnOffIdempotent ==
  [][ LET d == Get(devices, last'.name)
      IN  last'.op \in {"turn_on", "turn_off"}
            /\ d.kind \in {"SmartLight", "SmartThermostat"}
            => /\ last'.op = "turn_on" /\ d.is_on
                    => devices' = devices /\ last'.result = "noop"
               /\ last'.op = "turn_off" /\ ~d.is_on
                    => devices' = devices /\ last'.result = "noop"
               /\ last'.again
                    => devices' = devices /\ last'.result = "noop"
    ]_vars

\* turn_on has just been called a second time in a row on a thermostat,
\* which is cooling.
C18_Witness ==
  /\ last.op = "turn_on"
  /\ last.again
  /\ last.result = "noop"
  /\ Get(devices, last.name).kind = "SmartThermostat"
  /\ Get(devices, last.name).mode = "Cooling"

\* C19: in every reachable state every light has 0 <= brightness <= 100 and
\* every thermostat has 10 <= target_temp <= 30 (the devices are constructed
\* with values in range), and an automation cycle changes the brightness
\* and the target_temp of no device.
C19_RangesKept ==
  /\ [](/\ \A k \in KeysOf("SmartLight") :
             0 <= devices[k].brightness /\ devices[k].brightness <= 100
        /\ \A k \in KeysOf("SmartThermostat") :
             10 <= devices[k].target_temp /\ devices[k].target_temp <= 30)
  /\ [][ CycleRan' =>
           \A k \in DOMAIN devices :
             /\ HasAttr(devices[k], "brightness")
                  => devices'[k].brightness = devices[k].brightness
             /\ HasAttr(devices[k], "target_temp")
                  => devices'[k].target_temp = devices[k].target_temp
       ]_vars

\* Rule 1 has just turned off a light whose brightness had been set to 100.
C19_Witness ==
  /\ CycleRan
  /\ 1 \in last.fired
  /\ Get(devices, LivingRoomLight).kind = "SmartLight"
  /\ Get(devices, LivingRoomLight).brightness = 100
  /\ ~Get(devices, LivingRoomLight).is_on

\* C20: the current_temp of a registered thermostat changes only in an
\* automation cycle in which rule 4 steps it, only on "Main Thermostat", and
\* only when that thermostat was on and heating or cooling: turn_on,
\* turn_off, set_target_temp and every other command leave it as it was,
\* and so does a cycle on a thermostat that is off or idle.  (add_device
\* puts another object in the registry; it changes no thermostat.)
C20_CurrentTempOnlyByRule4 ==
  [][ last'.op # "add_device" =>
        \A k \in KeysOf("SmartThermostat") :
          /\ k \in DOMAIN devices'
          /\ devices'[k].kind = "SmartThermostat"
          /\ devices'[k].current_temp # devices[k].current_temp
               => /\ CycleRan'
                  /\ 4 \in last'.fired
                  /\ k = Lower(MainThermostat)
                  /\ devices[k].is_on
                  /\ devices[k].mode \in {"Heating", "Cooling"}
    ]_vars

\* A second cycle in a row has just left "Main Thermostat" alone: it is
\* idle, at a temperature an earlier cycle brought it to.
C20_Witness ==
  /\ CycleRan
  /\ last.again
  /\ 4 \notin last.fired
  /\ Get(devices, MainThermostat).kind = "SmartThermostat"
  /\ Get(devices, MainThermostat).mode = "Idle"
  /\ Get(devices, MainThermostat).current_temp
       # SmartThermostat(MainThermostat, Deg(25), 22).current_temp

====
